---- MODULE Spec2Model ----
(***************************************************************************)
(* Model of synth/syntax/grammars/concrete_cfg.py: the construction of a   *)
(* depth-bounded grammar from a DSL (ConcreteCFG.from_dsl), its cleaning   *)
(* (ConcreteCFG.clean) and the counting of its programs (size).            *)
(***************************************************************************)
EXTENDS Integers, Sequences, FiniteSets, TLC

\* ------------------------------------------------------------------------
\* Bounds of the model
\* ------------------------------------------------------------------------
MaxDepth == 3
MaxNGram == 2

\* ------------------------------------------------------------------------
\* Types (synth.syntax.type_system).  A type is kept in curried normal form:
\* the list of its argument types and its final (non-arrow) result.
\* ------------------------------------------------------------------------
PrimitiveType(n) == [args |-> <<>>, ret |-> n]
INT == PrimitiveType("INT")
BOOL == PrimitiveType("BOOL")
Arrow(type_in, type_out) == [args |-> <<type_in>> \o type_out.args, ret |-> type_out.ret]
IsArrow(t) == Len(t.args) > 0
returns(t) == PrimitiveType(t.ret)
arguments(t) == t.args
\* the type left after peeling the first k arguments
Peel(t, k) == [args |-> SubSeq(t.args, k + 1, Len(t.args)), ret |-> t.ret]
\* Type.ends_with(other): None (ok = FALSE) when other is not a suffix of
\* self, else the list of the arguments peeled to reach it (possibly empty).
ends_with(self, other) ==
    IF \E k \in 0..Len(self.args) : Peel(self, k) = other
    THEN [ok |-> TRUE,
          args |-> SubSeq(self.args, 1,
                     CHOOSE k \in 0..Len(self.args) : Peel(self, k) = other)]
    ELSE [ok |-> FALSE, args |-> <<>>]

\* ------------------------------------------------------------------------
\* Programs (synth.syntax.program) and non-terminals
\* ------------------------------------------------------------------------
Primitive(name, type) == [kind |-> "Primitive", primitive |-> name, variable |-> 0, type |-> type]
Variable(i, type) == [kind |-> "Variable", primitive |-> "", variable |-> i, type |-> type]
Constant(type) == [kind |-> "Constant", primitive |-> "", variable |-> 0, type |-> type]

NonTerminal(type, predecessors, depth) ==
    [type |-> type, predecessors |-> predecessors, depth |-> depth]

\* ------------------------------------------------------------------------
\* Insertion-ordered dictionaries (Python dict): sequences of entries
\* ------------------------------------------------------------------------
Entry(key, val) == [k |-> key, v |-> val]
DictKeys(d) == {d[i].k : i \in DOMAIN d}
DictGet(d, key) == d[CHOOSE i \in DOMAIN d : d[i].k = key].v
DictSet(d, key, val) ==
    IF key \in DictKeys(d)
    THEN [i \in DOMAIN d |-> IF d[i].k = key THEN Entry(key, val) ELSE d[i]]
    ELSE Append(d, Entry(key, val))
DictDel(d, key) == SelectSeq(d, LAMBDA e : e.k # key)
Range(s) == {s[i] : i \in DOMAIN s}
\* the value the last assignment to key gives it
LastAssigned(assigns, key) ==
    assigns[CHOOSE i \in DOMAIN assigns :
               /\ assigns[i].k = key
               /\ \A j \in DOMAIN assigns : j > i => assigns[j].k # key].v
\* d[k] = v for every assignment, first to last: a key d has keeps its place
\* and takes the last value assigned, a new key is appended where it is first
\* assigned
DictSetAll(d, assigns) ==
    LET assigned == {assigns[i].k : i \in DOMAIN assigns}
        updated == [i \in DOMAIN d |->
                      IF d[i].k \in assigned
                      THEN Entry(d[i].k, LastAssigned(assigns, d[i].k))
                      ELSE d[i]]
        added == SelectSeq([i \in DOMAIN assigns |-> i],
                    LAMBDA i : /\ assigns[i].k \notin DictKeys(d)
                               /\ \A j \in DOMAIN assigns : j < i => assigns[j].k # assigns[i].k)
    IN updated \o (IF added = <<>> THEN <<>>
                   ELSE [n \in 1..Len(added) |->
                           Entry(assigns[added[n]].k,
                                 LastAssigned(assigns, assigns[added[n]].k))])

\* ------------------------------------------------------------------------
\* The inputs of from_dsl are drawn from these sets
\* ------------------------------------------------------------------------
Catalog == << Primitive("zero", INT),
              Primitive("succ", Arrow(INT, INT)),
              Primitive("ite", Arrow(BOOL, Arrow(INT, INT))) >>
PrimitiveNames == {Catalog[i].primitive : i \in DOMAIN Catalog}
TypeRequests == { INT, Arrow(INT, INT), Arrow(BOOL, Arrow(INT, INT)),
                  Arrow(Arrow(INT, INT), INT) }
ConstantTypeSets == { {}, {INT}, {BOOL} }
MinVariableDepths == {0, 1, 2}
\* values of dsl.forbidden_patterns: 2-grams (producer, successor), and a
\* longer pattern that from_dsl skips
ForbiddenTables == { {},
                     { <<"succ", "succ">> },
                     { <<"succ", "zero">>, <<"succ", "succ", "zero">> },
                     { <<"ite", "succ">>, <<"succ", "succ">> } }

VARIABLES
    list_primitives,      \* dsl.list_primitives
    forbidden_patterns,   \* dsl.forbidden_patterns
    type_request,         \* from_dsl parameter
    max_depth,            \* from_dsl parameter
    min_variable_depth,   \* from_dsl parameter
    n_gram,               \* from_dsl parameter
    recursive,            \* from_dsl parameter
    constant_types,       \* from_dsl parameter
    list_to_be_treated,   \* the deque of from_dsl, leftmost first
    rules,                \* the rule table being built, then self.rules
    raw_rules,            \* the table as from_dsl handed it to the constructor
    cfg_type_request,     \* self.type_request computed by the constructor
    total,                \* value returned by size()
    other,                \* a second grammar, constructed on the first one's table
    previous,             \* the build before this one: what size() returned, -1 if nothing
    pc                    \* "from_dsl", "returned", "raised", "sized", "size_raised",
                          \* "shared", "shared_raised", "cleaned", "clean_raised",
                          \* "recleaned", "reclean_raised", "table", "pruned"

vars == << list_primitives, forbidden_patterns, type_request, max_depth,
           min_variable_depth, n_gram, recursive, constant_types,
           list_to_be_treated, rules, raw_rules, cfg_type_request,
           total, other, previous, pc >>

params == << list_primitives, forbidden_patterns, type_request, max_depth,
             min_variable_depth, n_gram, recursive, constant_types >>

\* ------------------------------------------------------------------------
\* from_dsl, lines 190-209
\* ------------------------------------------------------------------------
forbidden_sets_get(source) ==
    {p[2] : p \in {q \in forbidden_patterns : Len(q) = 2 /\ q[1] = source}}

return_type == IF IsArrow(type_request) THEN returns(type_request) ELSE type_request
args == IF IsArrow(type_request) THEN arguments(type_request) ELSE <<>>
start == NonTerminal(return_type, <<>>, 0)

\* ------------------------------------------------------------------------
\* from_dsl, the body of the worklist loop (lines 211-307)
\* ------------------------------------------------------------------------
\* the bound taken inclusive: derivations added at depth == max_depth too
within_depth_inclusive(depth) == depth <= max_depth

\* line 222: derivations are only added below the depth bound
within_depth(depth) == depth < max_depth
\* line 224
variables_allowed(depth) == depth >= min_variable_depth
\* function calls stopped one level early
may_call_shallower(depth) == depth < max_depth - 2

\* line 238: function calls are only added while depth < max_depth - 1
may_call(depth) == depth < max_depth - 1

\* the table read as the names allowed below the most recent producer
forbidden_complement(non_terminal) ==
    LET listed == forbidden_sets_get(
                      IF Len(non_terminal.predecessors) > 0
                         /\ non_terminal.predecessors[1][1].kind = "Primitive"
                      THEN non_terminal.predecessors[1][1].primitive
                      ELSE "")
    IN IF listed = {} THEN {} ELSE PrimitiveNames \ listed

\* lines 239-245: the names forbidden below the most recent producer
forbidden(non_terminal) ==
    forbidden_sets_get(
        IF Len(non_terminal.predecessors) > 0
           /\ non_terminal.predecessors[1][1].kind = "Primitive"
        THEN non_terminal.predecessors[1][1].primitive
        ELSE "")

\* the context never shortened: the pop of line 260 left out
new_predecessors_untruncated(P, i, non_terminal) ==
    << <<P, i>> >> \o non_terminal.predecessors

\* the context cut one entry too short
new_predecessors_shorter(P, i, non_terminal) ==
    LET addition == << <<P, i>> >> \o non_terminal.predecessors
        keep == IF n_gram >= 2 THEN n_gram - 2 ELSE 0
    IN SubSeq(addition, 1, IF Len(addition) < keep THEN Len(addition) ELSE keep)

\* lines 257-260: the context of argument i of producer P
new_predecessors(P, i, non_terminal) ==
    LET addition == << <<P, i>> >> \o non_terminal.predecessors
    IN IF Len(addition) > n_gram - 1
       THEN SubSeq(addition, 1, Len(addition) - 1)
       ELSE addition

\* the children put two levels below their parent
decorated_arguments_deeper(P, arguments_P, non_terminal) ==
    IF arguments_P = <<>> THEN <<>>
    ELSE [j \in 1..Len(arguments_P) |->
            NonTerminal(arguments_P[j],
                        new_predecessors(P, j - 1, non_terminal),
                        non_terminal.depth + 2)]

\* lines 253-264: one child non-terminal per argument of P
decorated_arguments(P, arguments_P, non_terminal) ==
    IF arguments_P = <<>> THEN <<>>
    ELSE [j \in 1..Len(arguments_P) |->
            NonTerminal(arguments_P[j],
                        new_predecessors(P, j - 1, non_terminal),
                        non_terminal.depth + 1)]

\* the positions 1..Len(s) of s whose element satisfies Test, in order
Positions(s, Test(_)) ==
    SelectSeq([i \in 1..Len(s) |-> i], LAMBDA i : Test(s[i]))

\* lines 225-228: rules[non_terminal][Variable(i, current_type)] = []
VariableLeaves(non_terminal) ==
    LET idx == Positions(args, LAMBDA t : t = non_terminal.type)
    IN IF idx = <<>> THEN <<>>
       ELSE [j \in 1..Len(idx) |->
               Entry(Variable(idx[j] - 1, non_terminal.type), <<>>)]

\* lines 229-231: rules[non_terminal][Constant(current_type)] = []
ConstantLeaves(non_terminal) ==
    IF non_terminal.type \in constant_types
    THEN << Entry(Constant(non_terminal.type), <<>>) >>
    ELSE <<>>

\* lines 233-236: constants of the DSL
PrimitiveLeaves(non_terminal) ==
    LET ps == SelectSeq(list_primitives,
                 LAMBDA P : ~IsArrow(P.type) /\ P.type = non_terminal.type)
    IN IF ps = <<>> THEN <<>>
       ELSE [j \in 1..Len(ps) |-> Entry(ps[j], <<>>)]

\* lines 247-268: DSL primitives called as functions
PrimitiveCalls(non_terminal) ==
    LET ps == SelectSeq(list_primitives,
                 LAMBDA P : /\ P.primitive \notin forbidden(non_terminal)
                            /\ ends_with(P.type, non_terminal.type).ok)
    IN IF ps = <<>> THEN <<>>
       ELSE [j \in 1..Len(ps) |->
               Entry(ps[j],
                     decorated_arguments(ps[j],
                        ends_with(ps[j].type, non_terminal.type).args,
                        non_terminal))]

\* lines 271-288: variables used as if they were functions
VariableCalls(non_terminal) ==
    LET idx == Positions(args, LAMBDA t : ends_with(t, non_terminal.type).ok)
    IN IF idx = <<>> THEN <<>>
       ELSE [j \in 1..Len(idx) |->
               Entry(Variable(idx[j] - 1, args[idx[j]]),
                     decorated_arguments(Variable(idx[j] - 1, args[idx[j]]),
                        ends_with(args[idx[j]], non_terminal.type).args,
                        non_terminal))]

\* lines 290-307: the synthetic self call
SelfCalls(non_terminal) ==
    IF recursive /\ ends_with(type_request, non_terminal.type).ok
    THEN << Entry(Primitive("@self", type_request),
                  decorated_arguments(Primitive("@self", type_request),
                     ends_with(type_request, non_terminal.type).args,
                     non_terminal)) >>
    ELSE <<>>

\* every rules[non_terminal][...] = ... of one iteration, in program order
Assignments(non_terminal) ==
    IF within_depth(non_terminal.depth)
    THEN (IF variables_allowed(non_terminal.depth)
          THEN VariableLeaves(non_terminal) \o ConstantLeaves(non_terminal)
          ELSE <<>>)
         \o PrimitiveLeaves(non_terminal)
         \o (IF may_call(non_terminal.depth)
             THEN PrimitiveCalls(non_terminal) \o VariableCalls(non_terminal)
                  \o SelfCalls(non_terminal)
             ELSE <<>>)
    ELSE <<>>

\* the child non-terminals created by the assignments, in creation order
RECURSIVE CreatedContexts(_)
CreatedContexts(assigns) ==
    IF assigns = <<>> THEN <<>>
    ELSE Head(assigns).v \o CreatedContexts(Tail(assigns))

\* every context appended, the test of line 265 left out
AppendLeftAll(queue, contexts) ==
    (IF contexts = <<>> THEN <<>>
     ELSE [n \in 1..Len(contexts) |-> contexts[Len(contexts) + 1 - n]])
    \o queue

\* lines 265-266: appendleft every context not already waiting, in creation
\* order: the contexts that are neither waiting nor created earlier in this
\* iteration end up left of the queue, the last created leftmost
AppendLeftNew(queue, contexts) ==
    LET fresh == SelectSeq([i \in DOMAIN contexts |-> i],
                    LAMBDA i : /\ contexts[i] \notin Range(queue)
                               /\ \A j \in DOMAIN contexts : j < i => contexts[j] # contexts[i])
    IN (IF fresh = <<>> THEN <<>>
        ELSE [n \in 1..Len(fresh) |-> contexts[fresh[Len(fresh) + 1 - n]]])
       \o queue

\* lines 219-220: a missing key is created with no derivation
WithKey(d, key) == IF key \in DictKeys(d) THEN d ELSE DictSet(d, key, <<>>)

\* one iteration of the while loop of from_dsl
Treat ==
    /\ pc = "from_dsl"
    /\ Len(list_to_be_treated) > 0
    /\ LET non_terminal == list_to_be_treated[Len(list_to_be_treated)]
           rest == SubSeq(list_to_be_treated, 1, Len(list_to_be_treated) - 1)
           assigns == Assignments(non_terminal)
           rules1 == WithKey(rules, non_terminal)
       IN /\ rules' = DictSet(rules1, non_terminal,
                         DictSetAll(DictGet(rules1, non_terminal), assigns))
          /\ list_to_be_treated' = AppendLeftNew(rest, CreatedContexts(assigns))
    /\ UNCHANGED << params, raw_rules, cfg_type_request, total, other, previous, pc >>

\* ------------------------------------------------------------------------
\* ConcreteCFG.__remove_non_productive__ (lines 102-121)
\* ------------------------------------------------------------------------
\* line 112: all(arg in new_rules for arg in args_P)
all_in(args_P, new_keys) == \A j \in DOMAIN args_P : args_P[j] \in new_keys

\* lines 110-115 for one S, new_keys being the keys of new_rules before S:
\* derivation j is put in new_rules[S] when its arguments are keys of
\* new_rules, and S itself is one of them once an earlier derivation is in
productive(S, derivations, j, new_keys) ==
    \/ all_in(derivations[j].v, new_keys)
    \/ /\ all_in(derivations[j].v, new_keys \cup {S})
       /\ \E h \in 1..(j - 1) : all_in(derivations[h].v, new_keys)

\* lines 109-115: the keys of new_rules once the states at positions i and
\* after have been visited (for S in reversed(self.rules))
RECURSIVE productive_keys(_, _)
productive_keys(table, i) ==
    IF i > Len(table) THEN {}
    ELSE LET new_keys == productive_keys(table, i + 1)
         IN IF \E j \in DOMAIN table[i].v : all_in(table[i].v[j].v, new_keys)
            THEN new_keys \cup {table[i].k}
            ELSE new_keys

\* new_rules[table[i].k]: the derivations kept, in their order
productive_derivations(table, i) ==
    LET new_keys == productive_keys(table, i + 1)
        kept == SelectSeq([j \in DOMAIN table[i].v |-> j],
                   LAMBDA j : productive(table[i].k, table[i].v, j, new_keys))
    IN IF kept = <<>> THEN <<>>
       ELSE [n \in 1..Len(kept) |-> table[i].v[kept[n]]]

\* the pass left out: every state of the table is kept as it is
remove_non_productive_skipped(table) == table

\* lines 117-121: a state of new_rules takes its derivations from it, any
\* other state is deleted
remove_non_productive(table) ==
    LET new_keys == productive_keys(table, 1)
        kept == SelectSeq([i \in DOMAIN table |-> i],
                   LAMBDA i : table[i].k \in new_keys)
    IN IF kept = <<>> THEN <<>>
       ELSE [n \in 1..Len(kept) |->
               Entry(table[kept[n]].k, productive_derivations(table, kept[n]))]

\* ------------------------------------------------------------------------
\* ConcreteCFG.__remove_non_reachable__ (lines 123-147)
\* ------------------------------------------------------------------------
\* one round whatever the depth bound
expansion_rounds_once(max_program_depth) == 1

\* two rounds too few
expansion_rounds_short(max_program_depth) == max_program_depth - 2

\* line 134: the number of expansion rounds
expansion_rounds(max_program_depth) == max_program_depth

\* lines 136-141: every argument of every derivation of the states of reach
arguments_of(table, reach) ==
    UNION { UNION { Range(DictGet(table, S)[i].v) : i \in DOMAIN DictGet(table, S) }
            : S \in reach }

\* lines 134-143; self.rules[S] raises KeyError when S is not a key
RECURSIVE reach_from(_, _, _, _)
reach_from(table, reach, reachable, n) ==
    IF n <= 0 THEN [raised |-> FALSE, reachable |-> reachable]
    ELSE IF ~(reach \subseteq DictKeys(table))
         THEN [raised |-> TRUE, reachable |-> reachable]
         ELSE LET new_reach == arguments_of(table, reach)
              IN reach_from(table, new_reach, reachable \cup new_reach, n - 1)

\* the start state not put in reachable: line 128 left out
remove_non_reachable_unseeded(table, start_, max_program_depth) ==
    LET r == reach_from(table, {start_}, {}, expansion_rounds(max_program_depth))
    IN [raised |-> r.raised,
        rules |-> IF r.raised THEN table
                  ELSE SelectSeq(table, LAMBDA e : e.k \in r.reachable)]

remove_non_reachable(table, start_, max_program_depth) ==
    LET r == reach_from(table, {start_}, {start_}, expansion_rounds(max_program_depth))
    IN [raised |-> r.raised,
        rules |-> IF r.raised THEN table
                  ELSE SelectSeq(table, LAMBDA e : e.k \in r.reachable)]

\* the two passes in the other order
clean_passes_swapped(table, start_, max_program_depth) ==
    LET r == remove_non_reachable(table, start_, max_program_depth)
    IN [raised |-> r.raised, rules |-> remove_non_productive(r.rules)]

\* ConcreteCFG.clean (lines 94-100)
clean(table, start_, max_program_depth) ==
    remove_non_reachable(remove_non_productive(table), start_, max_program_depth)

\* ------------------------------------------------------------------------
\* ConcreteCFG.__init__, the type request (lines 62-76)
\* ------------------------------------------------------------------------
NoType == PrimitiveType("unset")

\* the places <<i, j>> of the table whose derivation is by a variable
variable_places(table) ==
    UNION { { <<i, j>> : j \in {h \in DOMAIN table[i].v : table[i].v[h].k.kind = "Variable"} }
            : i \in DOMAIN table }
Before(p, q) == p[1] < q[1] \/ (p[1] = q[1] /\ p[2] < q[2])
\* the places where a variable is met for the first time (lines 67-69)
first_places(table) ==
    { p \in variable_places(table) :
        \A q \in variable_places(table) :
            table[q[1]].v[q[2]].k = table[p[1]].v[p[2]].k => ~Before(q, p) }
\* lines 65-69: the distinct variables of the rules, in order of discovery
RECURSIVE in_order(_, _)
in_order(table, places) ==
    IF places = {} THEN <<>>
    ELSE LET p == CHOOSE p \in places : \A q \in places : ~Before(q, p)
         IN <<table[p[1]].v[p[2]].k>> \o in_order(table, places \ {p})
found_variables(table) == in_order(table, first_places(table))

\* lines 73-75 for one j: for v in variables: if v.variable == j
RECURSIVE add_arguments(_, _, _)
add_arguments(variables, j, type_req) ==
    IF variables = <<>> THEN type_req
    ELSE add_arguments(Tail(variables), j,
            IF Head(variables).variable = j
            THEN Arrow(Head(variables).type, type_req)
            ELSE type_req)

\* lines 71-75: j = n - 1 down to 0
RECURSIVE compose_request(_, _, _)
compose_request(variables, j, type_req) ==
    IF j < 0 THEN type_req
    ELSE compose_request(variables, j - 1, add_arguments(variables, j, type_req))

find_type_request(table, start_) ==
    LET variables == found_variables(table)
    IN compose_request(variables, Len(variables) - 1, start_.type)

\* the return statement of from_dsl (lines 309-314): the constructor cleans
\* the table and computes the type request, or clean() raises KeyError
Construct ==
    /\ pc = "from_dsl"
    /\ Len(list_to_be_treated) = 0
    /\ LET c == clean(rules, start, max_depth)
       IN /\ raw_rules' = rules
          /\ rules' = c.rules
          /\ IF c.raised
             THEN pc' = "raised" /\ UNCHANGED cfg_type_request
             ELSE /\ pc' = "returned"
                  /\ cfg_type_request' = find_type_request(c.rules, start)
    /\ UNCHANGED << params, list_to_be_treated, total, other, previous >>

\* ------------------------------------------------------------------------
\* ConcreteCFG.size (lines 81-92)
\* ------------------------------------------------------------------------
MaxOf(S) == IF S = {} THEN 0 ELSE CHOOSE m \in S : \A x \in S : x <= m

\* line 83: sorted(self.rules, key=depth, reverse=True), a stable sort
RECURSIVE depth_from(_, _)
depth_from(table, d) ==
    IF d < 0 THEN <<>>
    ELSE SelectSeq(table, LAMBDA e : e.k.depth = d) \o depth_from(table, d - 1)
\* the sort without reverse=True: shallowest states first
RECURSIVE depth_upto(_, _, _)
depth_upto(table, d, last) ==
    IF d > last THEN <<>>
    ELSE SelectSeq(table, LAMBDA e : e.k.depth = d) \o depth_upto(table, d + 1, last)
sorted_by_depth_ascending(table) ==
    depth_upto(table, 0, MaxOf({table[i].k.depth : i \in DOMAIN table}))

sorted_by_depth(table) ==
    depth_from(table, MaxOf({table[i].k.depth : i \in DOMAIN table}))

\* line 90: prod(total_programs[C] for C in args_P)
RECURSIVE prod(_, _)
prod(args_P, total_programs) ==
    IF args_P = <<>> THEN 1
    ELSE DictGet(total_programs, Head(args_P)) * prod(Tail(args_P), total_programs)

\* lines 84-90 for one S
RECURSIVE total_of(_, _)
total_of(derivations, total_programs) ==
    IF derivations = <<>> THEN 0
    ELSE (IF Len(Head(derivations).v) = 0 THEN 1
          ELSE prod(Head(derivations).v, total_programs))
         + total_of(Tail(derivations), total_programs)

\* does line 90 look up a non-terminal that has no total yet
missing_total(derivations, total_programs) ==
    \E i \in DOMAIN derivations :
        \E j \in DOMAIN derivations[i].v :
            derivations[i].v[j] \notin DictKeys(total_programs)

\* lines 84-91: total_programs once the first n states of the order have
\* been counted; raised when line 90 met a state that has no total yet
RECURSIVE count_programs(_, _)
count_programs(order, n) ==
    IF n = 0 THEN [raised |-> FALSE, total_programs |-> <<>>]
    ELSE LET c == count_programs(order, n - 1)
         IN IF c.raised \/ missing_total(order[n].v, c.total_programs)
            THEN [raised |-> TRUE, total_programs |-> c.total_programs]
            ELSE [raised |-> FALSE,
                  total_programs |->
                      DictSet(c.total_programs, order[n].k,
                              total_of(order[n].v, c.total_programs))]

size(table, start_) ==
    LET order == sorted_by_depth(table)
        c == count_programs(order, Len(order))
    IN IF c.raised \/ start_ \notin DictKeys(c.total_programs)
       THEN [raised |-> TRUE, value |-> 0]
       ELSE [raised |-> FALSE, value |-> DictGet(c.total_programs, start_)]

\* a call of size() on the grammar returned by from_dsl
Size ==
    /\ pc = "returned"
    /\ LET s == size(rules, start)
       IN IF s.raised
          THEN pc' = "size_raised" /\ UNCHANGED total
          ELSE pc' = "sized" /\ total' = s.value
    /\ UNCHANGED << params, list_to_be_treated, rules, raw_rules, cfg_type_request,
                    other, previous >>

\* ------------------------------------------------------------------------
\* ConcreteCFG.__init__ (lines 46-76) called with the rule table of the
\* grammar from_dsl returned: self.rules = rules keeps the caller's dict, and
\* clean() deletes from it
\* ------------------------------------------------------------------------
NoGrammar == [start |-> NonTerminal(NoType, <<>>, 0), max_program_depth |-> 0,
              type_request |-> NoType]

\* the start states the second grammar is given: the first grammar's start
\* and the states just below it
OtherStarts == {S \in DictKeys(rules) \cup {start} : S.depth <= 1}
\* the depth bounds the second grammar is given
OtherDepths == {1, max_depth}

ConstructShared ==
    /\ pc = "returned"
    /\ \E start_ \in OtherStarts, max_program_depth \in OtherDepths :
          LET c == clean(rules, start_, max_program_depth)
          IN /\ rules' = c.rules
             /\ IF c.raised
                THEN pc' = "shared_raised" /\ UNCHANGED other
                ELSE /\ pc' = "shared"
                     /\ other' = [start |-> start_,
                                  max_program_depth |-> max_program_depth,
                                  type_request |-> find_type_request(c.rules, start_)]
    /\ UNCHANGED << params, list_to_be_treated, raw_rules, cfg_type_request, total,
                    previous >>

\* ------------------------------------------------------------------------
\* clean() called again on the grammar from_dsl returned (lines 94-100)
\* ------------------------------------------------------------------------
Clean ==
    /\ pc = "returned"
    /\ LET c == clean(rules, start, max_depth)
       IN /\ rules' = c.rules
          /\ pc' = IF c.raised THEN "clean_raised" ELSE "cleaned"
    /\ UNCHANGED << params, list_to_be_treated, raw_rules, cfg_type_request, total,
                    other, previous >>

\* rules[S][P] = args for every derivation of raw that cleaned lacks: a state
\* cleaned has takes the derivation after the ones it kept, a state it lacks
\* is put after the states it has
Reinserted(cleaned, raw) ==
    LET kept == IF cleaned = <<>> THEN <<>>
                ELSE [i \in 1..Len(cleaned) |->
                        Entry(cleaned[i].k,
                              cleaned[i].v \o
                              SelectSeq(DictGet(raw, cleaned[i].k),
                                  LAMBDA e : e.k \notin DictKeys(cleaned[i].v)))]
    IN kept \o SelectSeq(raw, LAMBDA e : e.k \notin DictKeys(cleaned))

\* everything cleaning removed is put back in the table of the grammar
\* from_dsl returned, then clean() is called (lines 94-100)
ReinsertClean ==
    /\ pc = "returned"
    /\ LET c == clean(Reinserted(rules, raw_rules), start, max_depth)
       IN /\ rules' = c.rules
          /\ pc' = IF c.raised THEN "reclean_raised" ELSE "recleaned"
    /\ UNCHANGED << params, list_to_be_treated, raw_rules, cfg_type_request, total,
                    other, previous >>

\* ------------------------------------------------------------------------
\* from_dsl called a second time, with one argument changed (lines 165-209)
\* ------------------------------------------------------------------------
NoBuild == [kind |-> "none", total |-> -1]

\* the 2-grams (producer, successor) a caller adds to dsl.forbidden_patterns
ForbiddingRules == { <<"succ", "succ">>, <<"succ", "zero">>, <<"ite", "succ">> }

\* the first build is over: from_dsl raised, or size() returned or raised
BuildOver == pc \in {"raised", "sized", "size_raised"}

\* lines 206-209: the state from_dsl starts from
Restarted ==
    /\ list_to_be_treated' = << start >>
    /\ rules' = <<>>
    /\ raw_rules' = <<>>
    /\ cfg_type_request' = NoType
    /\ total' = -1
    /\ pc' = "from_dsl"

\* the same call with a greater max_depth
BuildDeeper ==
    /\ BuildOver
    /\ previous = NoBuild
    /\ \E d \in (max_depth + 1)..MaxDepth : max_depth' = d
    /\ previous' = [kind |-> "shallower", total |-> total]
    /\ Restarted
    /\ UNCHANGED << list_primitives, forbidden_patterns, type_request,
                    min_variable_depth, n_gram, recursive, constant_types, other >>

\* the same call once one more 2-gram is in dsl.forbidden_patterns
BuildRestricted ==
    /\ BuildOver
    /\ previous = NoBuild
    /\ \E rule \in ForbiddingRules \ forbidden_patterns :
          forbidden_patterns' = forbidden_patterns \cup {rule}
    /\ previous' = [kind |-> "unrestricted", total |-> total]
    /\ Restarted
    /\ UNCHANGED << list_primitives, type_request, max_depth,
                    min_variable_depth, n_gram, recursive, constant_types, other >>

\* ------------------------------------------------------------------------
\* __remove_non_productive__ (lines 102-121) on a rule table given to the
\* constructor
\* ------------------------------------------------------------------------
RemoveNonProductive ==
    /\ pc = "table"
    /\ raw_rules' = rules
    /\ rules' = remove_non_productive(rules)
    /\ pc' = "pruned"
    /\ UNCHANGED << params, list_to_be_treated, cfg_type_request, total, other,
                    previous >>

\* ------------------------------------------------------------------------
\* Specification
\* ------------------------------------------------------------------------
Init ==
    /\ \E names \in SUBSET PrimitiveNames :
          list_primitives = SelectSeq(Catalog, LAMBDA P : P.primitive \in names)
    /\ forbidden_patterns \in ForbiddenTables
    /\ type_request \in TypeRequests
    /\ max_depth \in 0..MaxDepth
    /\ min_variable_depth \in MinVariableDepths
    /\ n_gram \in 1..MaxNGram
    /\ recursive \in BOOLEAN
    /\ constant_types \in ConstantTypeSets
    /\ list_to_be_treated = << start >>
    /\ rules = <<>>
    /\ raw_rules = <<>>
    /\ cfg_type_request = NoType
    /\ total = -1
    /\ other = NoGrammar
    /\ previous = NoBuild
    /\ pc = "from_dsl"

Next == Treat \/ Construct \/ Size

Spec == Init /\ [][Next]_vars

\* the inputs of a build that is followed by a second build or by other
\* operations on its grammar
CompareTypeRequests == { INT, Arrow(INT, INT) }
CompareForbiddenTables == { {}, { <<"succ", "zero">> } }
CompareMinVariableDepths == {0, 2}

InitCompare ==
    /\ \E names \in SUBSET PrimitiveNames :
          list_primitives = SelectSeq(Catalog, LAMBDA P : P.primitive \in names)
    /\ forbidden_patterns \in CompareForbiddenTables
    /\ type_request \in CompareTypeRequests
    /\ max_depth \in 0..MaxDepth
    /\ min_variable_depth \in CompareMinVariableDepths
    /\ n_gram \in 1..MaxNGram
    /\ recursive \in BOOLEAN
    /\ constant_types \in ConstantTypeSets
    /\ list_to_be_treated = << start >>
    /\ rules = <<>>
    /\ raw_rules = <<>>
    /\ cfg_type_request = NoType
    /\ total = -1
    /\ other = NoGrammar
    /\ previous = NoBuild
    /\ pc = "from_dsl"

\* the build alone: the while loop of from_dsl keeps iterating while the
\* deque is not empty

InitBuild ==
    /\ \E names \in SUBSET PrimitiveNames :
          list_primitives = SelectSeq(Catalog, LAMBDA P : P.primitive \in names)
    /\ forbidden_patterns = {}
    /\ type_request = Arrow(INT, INT)
    /\ max_depth \in 0..MaxDepth
    /\ min_variable_depth = 0
    /\ n_gram \in 1..MaxNGram
    /\ recursive \in BOOLEAN
    /\ constant_types = {}
    /\ list_to_be_treated = << start >>
    /\ rules = <<>>
    /\ raw_rules = <<>>
    /\ cfg_type_request = NoType
    /\ total = -1
    /\ other = NoGrammar
    /\ previous = NoBuild
    /\ pc = "from_dsl"

NextBuild == Treat \/ Construct

SpecBuild == InitBuild /\ [][NextBuild]_vars /\ WF_vars(Treat)

\* rule tables given to the constructor: up to three states in any order,
\* each with a leaf derivation, a derivation with one child, both in either
\* order, or none
TableStates == { NonTerminal(INT, <<>>, d) : d \in 0..2 }
TableDerivations ==
    { <<>>, << Entry(Primitive("zero", INT), <<>>) >> }
    \cup { << Entry(Primitive("succ", Arrow(INT, INT)), <<C>>) >> : C \in TableStates }
    \cup { << Entry(Primitive("zero", INT), <<>>),
              Entry(Primitive("succ", Arrow(INT, INT)), <<C>>) >> : C \in TableStates }
    \cup { << Entry(Primitive("succ", Arrow(INT, INT)), <<C>>),
              Entry(Primitive("zero", INT), <<>>) >> : C \in TableStates }
Tables ==
    UNION { { [i \in 1..n |-> Entry(o[i], f[i])] :
                o \in { o \in [1..n -> TableStates] :
                           \A i, j \in 1..n : o[i] = o[j] => i = j },
                f \in [1..n -> TableDerivations] }
            : n \in 1..3 }

InitTable ==
    /\ list_primitives = << Primitive("zero", INT), Primitive("succ", Arrow(INT, INT)) >>
    /\ forbidden_patterns = {}
    /\ type_request = INT
    /\ max_depth = MaxDepth
    /\ min_variable_depth = 0
    /\ n_gram = 1
    /\ recursive = FALSE
    /\ constant_types = {}
    /\ list_to_be_treated = <<>>
    /\ rules \in Tables
    /\ raw_rules = <<>>
    /\ cfg_type_request = NoType
    /\ total = -1
    /\ other = NoGrammar
    /\ previous = NoBuild
    /\ pc = "table"

NextTable == RemoveNonProductive

SpecTable == InitTable /\ [][NextTable]_vars

NextCompare == Treat \/ Construct \/ Size \/ BuildDeeper \/ BuildRestricted

SpecCompare == InitCompare /\ [][NextCompare]_vars

\* a build, then the operations a caller runs on the grammar it returned
NextReuse == Treat \/ Construct \/ Size \/ ConstructShared \/ Clean \/ ReinsertClean

SpecReuse == InitCompare /\ [][NextReuse]_vars

\* ------------------------------------------------------------------------
\* Properties
\* ------------------------------------------------------------------------
\* from_dsl has returned a grammar
Constructed == pc \in {"returned", "sized", "size_raised"}

\* every derivation S -> P(args) of a table
DerivationsOf(table) ==
    UNION { { [S |-> table[i].k, P |-> table[i].v[j].k, args |-> table[i].v[j].v]
              : j \in DOMAIN table[i].v }
            : i \in DOMAIN table }

\* the states cleaning removed from the raw table
Removed == DictKeys(raw_rules) \ DictKeys(rules)

\* C1: in every grammar returned by from_dsl every key of rules has at least
\* one derivation and every child of every derivation is a key of rules.
C1_ProductiveNoDangling ==
    Constructed =>
        /\ \A i \in DOMAIN rules : rules[i].v # <<>>
        /\ \A d \in DerivationsOf(rules) : Range(d.args) \subseteq DictKeys(rules)

\* a returned grammar from which cleaning removed a state and that keeps a
\* derivation with children
C1_Witness ==
    /\ pc = "returned"
    /\ Removed # {}
    /\ \E d \in DerivationsOf(rules) : d.args # <<>>

\* the number of derivation trees rooted at S, by structural recursion
RECURSIVE TreesOf(_, _), TreesOfAll(_, _), TreesOfArgs(_, _)
TreesOf(table, S) ==
    IF S \in DictKeys(table) THEN TreesOfAll(table, DictGet(table, S)) ELSE 0
TreesOfAll(table, derivations) ==
    IF derivations = <<>> THEN 0
    ELSE TreesOfArgs(table, Head(derivations).v) + TreesOfAll(table, Tail(derivations))
TreesOfArgs(table, children) ==
    IF children = <<>> THEN 1
    ELSE TreesOf(table, Head(children)) * TreesOfArgs(table, Tail(children))

\* C2: when start is a key of the cleaned table, size() completes without
\* looking up a child that has no count yet, and returns the number of
\* derivation trees rooted at start.
C2_SizeCountsTrees ==
    (pc \in {"sized", "size_raised"} /\ start \in DictKeys(rules)) =>
        (pc = "sized" /\ total = TreesOf(rules, start))

\* size() has counted a grammar with a two-argument derivation and a sum
C2_Witness ==
    /\ pc = "sized"
    /\ start \in DictKeys(rules)
    /\ total >= 4
    /\ \E d \in DerivationsOf(rules) : Len(d.args) = 2

\* C3: when the start state is non-productive, from_dsl and clean() complete
\* without raising and the returned table does not contain the start state.
C3_NoProgramIsNotAnError ==
    (pc # "from_dsl" /\ start \notin DictKeys(remove_non_productive(raw_rules))) =>
        (pc # "raised" /\ start \notin DictKeys(rules))

\* every non-terminal waiting, treated or created as a child so far
KnownStates ==
    Range(list_to_be_treated) \cup DictKeys(rules)
    \cup UNION { Range(d.args) : d \in DerivationsOf(rules) }

\* C4: in a grammar built by from_dsl no derivation by a primitive p has a
\* child state with a derivation by a primitive q that the forbidding table
\* forbids below p, whatever n_gram and whatever the arity of q.
C4_ForbiddenNeverBelow ==
    Constructed =>
        \A d \in DerivationsOf(rules) :
            d.P.kind = "Primitive" =>
                \A e \in DerivationsOf(rules) :
                    (e.S \in Range(d.args) /\ e.P.kind = "Primitive") =>
                        e.P.primitive \notin forbidden_sets_get(d.P.primitive)

\* C5: in a grammar built by from_dsl a zero-child derivation by a variable
\* or by the Constant placeholder only occurs at states of depth >=
\* min_variable_depth.
C5_LeavesRespectMinDepth ==
    Constructed =>
        \A d \in DerivationsOf(rules) :
            (d.args = <<>> /\ d.P.kind \in {"Variable", "Constant"}) =>
                d.S.depth >= min_variable_depth

\* C6: size() returns 0 exactly when start is not a key of the cleaned table
\* and a positive integer exactly when it is.
C6_SizeZeroIffNoStart ==
    (pc \in {"sized", "size_raised"}) =>
        /\ pc = "sized"
        /\ (total = 0) <=> (start \notin DictKeys(rules))
        /\ (total > 0) <=> (start \in DictKeys(rules))

\* the least set that holds R and the arguments of every derivation of its
\* members
RECURSIVE ReachableFrom(_, _)
ReachableFrom(table, R) ==
    LET next == R \cup UNION { Range(d.args) : d \in {e \in DerivationsOf(table) : e.S \in R} }
    IN IF next = R THEN R ELSE ReachableFrom(table, next)

\* C7: after cleaning the keys of rules are exactly the states reachable from
\* start through the kept derivations.
C7_KeysAreReachable ==
    Constructed =>
        DictKeys(rules) = ReachableFrom(rules, {start} \cap DictKeys(rules))

\* a returned grammar that lost a productive state which only non-productive
\* derivations led to, and that keeps a state two levels below start
C7_Witness ==
    /\ pc = "returned"
    /\ Removed \cap DictKeys(remove_non_productive(raw_rules)) # {}
    /\ \E S \in DictKeys(rules) : S.depth >= 2

\* C8: every state enqueued, treated or created as a child has a depth of at
\* most max_depth, and a child is exactly one level below its parent.
C8_DepthBounded ==
    /\ \A S \in KnownStates : S.depth <= max_depth
    /\ \A d \in DerivationsOf(rules) :
          \A c \in Range(d.args) : c.depth = d.S.depth + 1

\* a self call with arguments below the start state
C8_Witness ==
    /\ recursive
    /\ \E d \in DerivationsOf(rules) :
          /\ d.P = Primitive("@self", type_request)
          /\ d.S.depth >= 1
          /\ d.args # <<>>

Min(a, b) == IF a <= b THEN a ELSE b

ZeroArityOf(S) ==
    {P \in Range(list_primitives) : ~IsArrow(P.type) /\ P.type = S.type}

\* C10 as stated: every treated state, at every depth up to and including
\* max_depth, has a zero-child derivation for each zero-arity primitive of
\* its type, and derivations with children only occur at depth < max_depth - 1.
C10_LeavesAtEveryDepth ==
    pc = "from_dsl" =>
        \A i \in DOMAIN rules :
            /\ rules[i].k.depth <= max_depth =>
                  \A P \in ZeroArityOf(rules[i].k) : Entry(P, <<>>) \in Range(rules[i].v)
            /\ \A e \in Range(rules[i].v) :
                  e.v # <<>> => rules[i].k.depth < max_depth - 1

\* C10 amended: a treated state of depth < max_depth has a zero-child
\* derivation for each zero-arity primitive of its type, a treated state of
\* depth >= max_depth has no derivation at all, and derivations with children
\* only occur at depth < max_depth - 1.
C10_LeavesBelowDepthBound ==
    pc = "from_dsl" =>
        \A i \in DOMAIN rules :
            /\ rules[i].k.depth < max_depth =>
                  \A P \in ZeroArityOf(rules[i].k) : Entry(P, <<>>) \in Range(rules[i].v)
            /\ rules[i].k.depth >= max_depth => rules[i].v = <<>>
            /\ \A e \in Range(rules[i].v) :
                  e.v # <<>> => rules[i].k.depth < max_depth - 1

\* the start state treated under max_depth = 0 with a zero-arity primitive of
\* its type in the DSL: it is left without derivation
C10_Witness ==
    /\ pc = "from_dsl"
    /\ max_depth = 0
    /\ start \in DictKeys(rules)
    /\ ZeroArityOf(start) # {}
    /\ DictGet(rules, start) = <<>>

\* the variables that occur in a derivation of the table
OccurringVariables(table) ==
    {d.P : d \in {e \in DerivationsOf(table) : e.P.kind = "Variable"}}

\* type_req preceded by the types of the variables, the greatest index
\* innermost, the least index outermost
RECURSIVE ComposeDescending(_, _)
ComposeDescending(variables, type_req) ==
    IF variables = {} THEN type_req
    ELSE LET v == CHOOSE v \in variables : \A w \in variables : w.variable <= v.variable
         IN ComposeDescending(variables \ {v}, Arrow(v.type, type_req))

\* C11: the type_request of a constructed grammar is the start type preceded
\* by one argument type for every distinct variable index that occurs in a
\* rule, composed in descending index order, whatever the set of indices.
C11_TypeRequestFromVariables ==
    Constructed =>
        cfg_type_request = ComposeDescending(OccurringVariables(rules), start.type)

\* C12: once from_dsl has returned a grammar, no later operation (size(), the
\* construction of another grammar on its rule table) changes its start, its
\* rules or its max_program_depth.
C12_GrammarNeverModified ==
    [][Constructed => (start' = start /\ rules' = rules /\ max_depth' = max_depth)]_vars

\* a grammar that kept a state with children and from which cleaning removed
\* a state or a derivation
CleaningRemoved ==
    /\ DerivationsOf(raw_rules) # DerivationsOf(rules)
    /\ \E d \in DerivationsOf(rules) : d.args # <<>>

C16_ReinsertCleanRoundTrip ==
    [][(pc = "returned" /\ pc' \in {"recleaned", "reclean_raised"}) =>
          (pc' = "recleaned" /\ rules' = rules)]_vars

\* the round trip has run on a grammar that lost a state and a derivation of
\* a kept state
C16_Witness ==
    /\ pc = "recleaned"
    /\ CleaningRemoved
    /\ Removed # {}
    /\ \E i \in DOMAIN rules : Len(DictGet(raw_rules, rules[i].k)) > Len(rules[i].v)

\* C13: when size() has returned for a build, the same build with a greater
\* max_depth returns a grammar too, and its size() returns at least as much.
C13_SizeMonotoneInDepth ==
    (previous.kind = "shallower" /\ previous.total >= 0 /\ BuildOver) =>
        (pc = "sized" /\ previous.total <= total)

\* a deeper build that counts more programs than the shallower one
C13_Witness ==
    /\ previous.kind = "shallower"
    /\ pc = "sized"
    /\ previous.total >= 2
    /\ total > previous.total

\* C14: with one more 2-gram in the forbidding table and everything else the
\* same, size() never returns more than it did without it: when it returns,
\* size() had returned without the 2-gram, and at least as much.
C14_SizeAntitoneInForbidding ==
    (previous.kind = "unrestricted" /\ pc = "sized") =>
        (previous.total >= 0 /\ total <= previous.total)

\* a build that counts fewer programs once a 2-gram is added
C14_Witness ==
    /\ previous.kind = "unrestricted"
    /\ pc = "sized"
    /\ n_gram >= 2
    /\ total < previous.total

\* the programs a table derives from S: a producer and the programs of its
\* children
RECURSIVE ProgramsOf(_, _), ProgramsOfArgs(_, _)
ProgramsOf(table, S) ==
    IF S \notin DictKeys(table) THEN {}
    ELSE UNION { { [P |-> e.k, args |-> a] : a \in ProgramsOfArgs(table, e.v) }
                 : e \in Range(DictGet(table, S)) }
ProgramsOfArgs(table, children) ==
    IF children = <<>> THEN { <<>> }
    ELSE { <<h>> \o t : h \in ProgramsOf(table, Head(children)),
                        t \in ProgramsOfArgs(table, Tail(children)) }

ZeroProgram == [P |-> Primitive("zero", INT), args |-> <<>>]
SuccProgram(x) == [P |-> Primitive("succ", Arrow(INT, INT)), args |-> <<x>>]

\* the DSL {zero: INT, succ: INT -> INT} asked for INT, the other parameters
\* of from_dsl left at their defaults
ZeroSuccDSL ==
    /\ list_primitives = << Primitive("zero", INT), Primitive("succ", Arrow(INT, INT)) >>
    /\ type_request = INT
    /\ ~recursive
    /\ constant_types = {}

\* C17 (scenario A): with max_depth = 2, n_gram = 1 and no forbidding rule,
\* from_dsl returns a grammar whose programs are exactly zero and succ(zero),
\* and size() returns 2.
C17_ScenarioA ==
    (ZeroSuccDSL /\ max_depth = 2 /\ n_gram = 1 /\ forbidden_patterns = {} /\ BuildOver) =>
        /\ pc = "sized"
        /\ total = 2
        /\ ProgramsOf(rules, start) = { ZeroProgram, SuccProgram(ZeroProgram) }

\* size() has returned in scenario A
C17_Witness ==
    /\ ZeroSuccDSL /\ max_depth = 2 /\ n_gram = 1 /\ forbidden_patterns = {}
    /\ pc = "sized"
    /\ Len(rules) = 2

\* C18 (scenario B): with max_depth = 3, n_gram = 2 and the forbidding rule
\* succ -> {succ}, the grammar derives zero and succ(zero) but not
\* succ(succ(zero)), and size() returns strictly less than it did for the same
\* build without the rule.
C18_ScenarioB ==
    (/\ ZeroSuccDSL /\ max_depth = 3 /\ n_gram = 2
     /\ forbidden_patterns = { <<"succ", "succ">> }
     /\ previous.kind = "unrestricted"
     /\ BuildOver) =>
        /\ pc = "sized"
        /\ ZeroProgram \in ProgramsOf(rules, start)
        /\ SuccProgram(ZeroProgram) \in ProgramsOf(rules, start)
        /\ SuccProgram(SuccProgram(ZeroProgram)) \notin ProgramsOf(rules, start)
        /\ previous.total >= 0
        /\ total < previous.total

\* size() has returned in scenario B, after the build without the rule
C18_Witness ==
    /\ ZeroSuccDSL /\ max_depth = 3 /\ n_gram = 2
    /\ forbidden_patterns = { <<"succ", "succ">> }
    /\ previous.kind = "unrestricted"
    /\ previous.total = 3
    /\ pc = "sized"

\* no state waits twice, and no state that was popped and treated waits again
TreatedOnce ==
    pc = "from_dsl" =>
        /\ Range(list_to_be_treated) \cap DictKeys(rules) = {}
        /\ \A i, j \in DOMAIN list_to_be_treated :
              list_to_be_treated[i] = list_to_be_treated[j] => i = j

\* C19: the worklist of from_dsl eventually empties, which ends the build
\* loop, and each state (type, context, depth) is popped and treated at most
\* once.
C19_BuildTerminates ==
    /\ []TreatedOnce
    /\ <>(list_to_be_treated = <<>>)

\* a build has ended in which two derivations created the same child state
C19_Witness ==
    /\ pc = "returned"
    /\ \E d, e \in DerivationsOf(raw_rules) :
          /\ d # e
          /\ Range(d.args) \cap Range(e.args) # {}
    /\ \E S \in DictKeys(raw_rules) : S.depth >= 2

\* the least set of states of a table that have a derivation all of whose
\* children are in the set
RECURSIVE ProductiveStates(_, _)
ProductiveStates(table, known) ==
    LET next == known \cup { d.S : d \in { e \in DerivationsOf(table) :
                                              Range(e.args) \subseteq known } }
    IN IF next = known THEN known ELSE ProductiveStates(table, next)

\* C20: for any rule table, in any key order, cyclic or self-recursive
\* derivations included, the non-productive removal pass keeps exactly the
\* states from which a finite derivation tree can be built and exactly the
\* derivations all of whose children are such states.
C20_KeepsExactlyProductive ==
    pc = "pruned" =>
        /\ DictKeys(rules) = ProductiveStates(raw_rules, {})
        /\ DerivationsOf(rules) =
              { d \in DerivationsOf(raw_rules) :
                  Range(d.args) \subseteq ProductiveStates(raw_rules, {}) }

====
